---- MODULE Spec2Model ----
(***************************************************************************)
(* Model of the Firebase Auth provider of firebase-functions:             *)
(*   src/src/providers/auth.ts  (UserBuilder, dataConstructor, user)      *)
(*   src/src/event.ts           (FirebaseEvent)                           *)
(* JavaScript values are records carrying their runtime type in field t.  *)
(***************************************************************************)
EXTENDS Integers, Sequences, FiniteSets, TLC

\* ------------------------------------------------------------------ bounds
MaxLen == 3
MaxRegs == 2
MaxInv == 2

\* ------------------------------------------------------- JavaScript values
Chars == {"a", "b", "/"}

RECURSIVE StringsUpTo(_)
StringsUpTo(n) ==
  IF n = 0 THEN {<<>>}
  ELSE LET shorter == StringsUpTo(n - 1)
       IN shorter \cup {Append(s, c) : s \in {x \in shorter : Len(x) = n - 1}, c \in Chars}

Undefined == [t |-> "undefined", c |-> <<>>]
Str(cs) == [t |-> "string", c |-> cs]
UidValues == {Undefined} \cup {Str(cs) : cs \in StringsUpTo(MaxLen)}

TUndefined == [t |-> "undefined", s |-> "", n |-> 0]
TStr(s) == [t |-> "string", s |-> s, n |-> 0]
TDate(n) == [t |-> "Date", s |-> "", n |-> n]
TInvalidDate == [t |-> "InvalidDate", s |-> "", n |-> 0]

TimeStrings == {"", "1970-01-01T00:00:01Z", "1970-01-02T00:00:00Z", "not a date"}
TemporalValues ==
  {TUndefined, TInvalidDate, TDate(1000)} \cup {TStr(s) : s \in TimeStrings}

\* typeof v
TypeOf(v) ==
  CASE v.t = "undefined" -> "undefined"
    [] v.t = "string" -> "string"
    [] OTHER -> "object"

\* ToBoolean(v) for a temporal field: undefined and "" are falsy
TruthyT(v) ==
  CASE v.t = "undefined" -> FALSE
    [] v.t = "string" -> v.s # ""
    [] OTHER -> TRUE

\* ToBoolean(v) for a string-or-undefined value
TruthyS(v) ==
  CASE v.t = "undefined" -> FALSE
    [] v.t = "string" -> v.c # <<>>
    [] OTHER -> TRUE

\* new Date(string): the time value in ms, or an Invalid Date
NewDate(s) ==
  CASE s = "1970-01-01T00:00:01Z" -> TDate(1000)
    [] s = "1970-01-02T00:00:00Z" -> TDate(86400000)
    [] OTHER -> TInvalidDate

\* String.prototype.lastIndexOf(ch): 0-based index of the last ch, or -1
RECURSIVE lastIndexOfFrom(_, _, _)
lastIndexOfFrom(s, ch, i) ==
  IF i = 0 THEN -1
  ELSE IF s[i] = ch THEN i - 1
  ELSE lastIndexOfFrom(s, ch, i - 1)

\* String.prototype.indexOf(ch): 0-based index of the first ch, or -1
RECURSIVE indexOfFrom(_, _, _)
indexOfFrom(s, ch, i) ==
  IF i > Len(s) THEN -1
  ELSE IF s[i] = ch THEN i - 1
  ELSE indexOfFrom(s, ch, i + 1)

lastIndexOfFirst(s, ch) == indexOfFrom(s, ch, 1)

lastIndexOf(s, ch) == lastIndexOfFrom(s, ch, Len(s))

\* String.prototype.substring(start): start is clamped to 0..length
substring(s, start) ==
  LET from == IF start < 0 THEN 0 ELSE IF start > Len(s) THEN Len(s) ELSE start
  IN SubSeq(s, from + 1, Len(s))

Contains(s, ch) == \E i \in 1..Len(s) : s[i] = ch
\* --------------------------------------------------- payload and envelope
MUndefined == [t |-> "undefined", lastSignedInAt |-> TUndefined, createdAt |-> TUndefined]
Metadata(l, c) == [t |-> "object", lastSignedInAt |-> l, createdAt |-> c]
MetadataValues ==
  {MUndefined} \cup {Metadata(l, c) : l \in TemporalValues, c \in TemporalValues}

Emails == {"", "user@example.com"}

DataUndefined == [t |-> "undefined", metadata |-> MUndefined, uid |-> Undefined, email |-> ""]
Data(m, u, e) == [t |-> "object", metadata |-> m, uid |-> u, email |-> e]
DataValues ==
  {DataUndefined} \cup {Data(m, u, e) : m \in MetadataValues, u \in UidValues, e \in Emails}

provider == "firebase.auth"
EventTypes == {"user.create", "user.delete"}

\* interface FirebaseEventOptions: instance, uid, deviceId and data are optional
FirebaseEventOptions ==
  [service : {provider}, type : EventTypes,
   instance : {Undefined, Str(<<"a">>)},
   uid : {Undefined, Str(<<"a", "/", "b">>)},
   deviceId : {Undefined},
   data : DataValues]

\* class FirebaseEvent: the constructor copies the six options
FirebaseEvent(opts) ==
  [service |-> opts.service, type |-> opts.type, instance |-> opts.instance,
   uid |-> opts.uid, deviceId |-> opts.deviceId, data |-> opts.data]

\* ------------------------------------------------ UserBuilder.dataConstructor
NoRef == 0

\* if (f && typeof f === 'string') f = new Date(f)
coerceTemporal(v) ==
  IF TruthyT(v) /\ TypeOf(v) = "string" THEN NewDate(v.s) ELSE v

\* variant: cuts at the first separator instead of the last
canonicalUidFirstSep(u) ==
  IF TruthyS(u) THEN Str(substring(u.c, lastIndexOfFirst(u.c, "/") + 1)) ELSE u

\* variant: the + 1 is missing, so the separator itself is kept
canonicalUidKeepSep(u) ==
  IF TruthyS(u) THEN Str(substring(u.c, lastIndexOf(u.c, "/"))) ELSE u

\* if (uid) uid = uid.substring(uid.lastIndexOf('/') + 1)
canonicalUid(u) ==
  IF TruthyS(u) THEN Str(substring(u.c, lastIndexOf(u.c, "/") + 1)) ELSE u

\* if (raw.data.metadata) { ...both temporal fields... }
repairMetadata(m) ==
  IF m.t = "object"
  THEN [m EXCEPT !.lastSignedInAt = coerceTemporal(m.lastSignedInAt),
                 !.createdAt = coerceTemporal(m.createdAt)]
  ELSE m

\* variant: repairs a copy of the envelope and returns the copy's data
dataConstructorCopy(h, r) ==
  IF h[r].data.t = "undefined"
  THEN [heap |-> h, ret |-> NoRef, threw |-> TRUE]
  ELSE [heap |-> Append(h, [h[r] EXCEPT !.data.metadata = repairMetadata(@),
                                        !.data.uid = canonicalUid(@)]),
        ret |-> Len(h) + 1, threw |-> FALSE]

\* variant: canonicalizes the envelope's own uid as well
dataConstructorEnvUid(h, r) ==
  IF h[r].data.t = "undefined"
  THEN [heap |-> h, ret |-> NoRef, threw |-> TRUE]
  ELSE [heap |-> [h EXCEPT ![r].data.metadata = repairMetadata(@),
                           ![r].data.uid = canonicalUid(@),
                           ![r].uid = canonicalUid(@)],
        ret |-> r, threw |-> FALSE]

\* variant: keeps the repaired record in one static object shared by all calls
dataConstructorStatic(h, r) ==
  IF h[r].data.t = "undefined"
  THEN [heap |-> h, ret |-> NoRef, threw |-> TRUE]
  ELSE [heap |-> [h EXCEPT ![1].data = [h[r].data EXCEPT !.metadata = repairMetadata(@),
                                                         !.uid = canonicalUid(@)]],
        ret |-> 1, threw |-> FALSE]

\* dataConstructor(raw), raw being the object at reference r of heap h.
\* Reading a property of raw.data when raw.data is undefined throws a
\* TypeError; otherwise raw.data is repaired in place and returned, so ret is
\* the reference of the envelope whose data object is the returned record.
dataConstructor(h, r) ==
  IF h[r].data.t = "undefined"
  THEN [heap |-> h, ret |-> NoRef, threw |-> TRUE]
  ELSE [heap |-> [h EXCEPT ![r].data.metadata = repairMetadata(@),
                           ![r].data.uid = canonicalUid(@)],
        ret |-> r, threw |-> FALSE]

\* the value a caller holds after the call: the record, or none on a throw
Result(res) ==
  [threw |-> res.threw, ret |-> res.ret,
   rec |-> IF res.threw THEN DataUndefined ELSE res.heap[res.ret].data]

NoResult == [threw |-> FALSE, ret |-> NoRef, rec |-> DataUndefined]

\* ------------------------------------------------------------- UserBuilder
Projects == {"p1"}

\* new UserBuilder(resource)
UserBuilder(resource) == [resource |-> resource]

\* user(): new UserBuilder('projects/' + process.env.GCLOUD_PROJECT)
user(project) == UserBuilder("projects/" \o project)

\* user callbacks: one returning a plain value, one throwing, one returning a
\* pending computation that rejects
Callbacks == {"returns", "throws", "rejects"}

\* makeCloudFunction(options): the handler descriptor handed to the runtime
makeCloudFunction(opts) ==
  [providerId |-> opts.provider, resource |-> opts.resource,
   eventType |-> opts.eventType, normalize |-> opts.dataConstructor,
   handler |-> opts.handler]

onCreate(self, handler) ==
  makeCloudFunction([provider |-> provider, handler |-> handler,
                     resource |-> self.resource, eventType |-> "user.create",
                     dataConstructor |-> "UserBuilder.dataConstructor"])

\* variant: onDelete pasted from onCreate with the event type left as it was
onDeleteAsCreate(self, handler) ==
  makeCloudFunction([provider |-> provider, handler |-> handler,
                     resource |-> self.resource, eventType |-> "user.create",
                     dataConstructor |-> "UserBuilder.dataConstructor"])

\* variant: binds a wrapper that catches whatever the callback throws or
\* rejects with, and so behaves as a callback that returns
onDeleteSwallow(self, handler) ==
  makeCloudFunction([provider |-> provider, handler |-> "returns",
                     resource |-> self.resource, eventType |-> "user.delete",
                     dataConstructor |-> "UserBuilder.dataConstructor"])

onDelete(self, handler) ==
  makeCloudFunction([provider |-> provider, handler |-> handler,
                     resource |-> self.resource, eventType |-> "user.delete",
                     dataConstructor |-> "UserBuilder.dataConstructor"])

\* ------------------------------------------------------- handler invocation
\* payloads the runtime delivers
WirePayloads ==
  {DataUndefined,
   Data(Metadata(TUndefined, TStr("1970-01-02T00:00:00Z")), Str(<<"a", "/", "b">>),
        "user@example.com"),
   Data(MUndefined, Str(<<"b">>), "")}

WireOptions ==
  [service : {provider}, type : EventTypes, instance : {Undefined},
   uid : {Str(<<"a", "/", "b">>)}, deviceId : {Undefined}, data : WirePayloads]

\* the Event wrapper passed to the user callback
Event(rec, raw, resource) ==
  [data |-> rec, service |-> raw.service, resource |-> resource,
   eventType |-> raw.type,
   params |-> [instance |-> raw.instance, uid |-> raw.uid, deviceId |-> raw.deviceId]]

NoEvent == Event(DataUndefined, FirebaseEvent(CHOOSE o \in WireOptions : TRUE), "")

NoOutcome == [state |-> "none", by |-> ""]
Resolved(cb) == [state |-> "resolved", by |-> cb]
Rejected(cb) == [state |-> "rejected", by |-> cb]

\* what calling the callback yields at once, and what its pending result settles to
Returned(cb) ==
  CASE cb = "returns" -> Resolved(cb)
    [] cb = "throws" -> Rejected(cb)
    [] OTHER -> NoOutcome

Settled(cb) ==
  CASE cb = "rejects" -> Rejected(cb)
    [] OTHER -> Resolved(cb)

\* ------------------------------------------------------------------- state
VARIABLES phase, options, heap, first, second,
          GCLOUD_PROJECT, builders, registry, inv, ncalls

vars == <<phase, options, heap, first, second,
          GCLOUD_PROJECT, builders, registry, inv, ncalls>>

normVars == <<phase, options, first, second>>
runtimeVars == <<GCLOUD_PROJECT, builders, registry, inv, ncalls>>

\* ------------------------------------- the normalizer applied to an envelope
InitNorm ==
  /\ phase = "options"
  /\ options \in FirebaseEventOptions
  /\ heap = <<>>
  /\ first = NoResult
  /\ second = NoResult
  /\ GCLOUD_PROJECT = "p1"
  /\ builders = {}
  /\ registry = {}
  /\ inv = <<>>
  /\ ncalls = 0

\* new FirebaseEvent(options)
Construct ==
  /\ phase = "options"
  /\ heap' = <<FirebaseEvent(options)>>
  /\ phase' = "raw"
  /\ UNCHANGED <<options, first, second>>
  /\ UNCHANGED runtimeVars

\* UserBuilder.dataConstructor(raw)
Normalize ==
  /\ phase = "raw"
  /\ LET res == dataConstructor(heap, 1)
     IN /\ heap' = res.heap
        /\ first' = Result(res)
  /\ phase' = "once"
  /\ UNCHANGED <<options, second>>
  /\ UNCHANGED runtimeVars

\* dataConstructor applied again, to the envelope holding the returned record
NormalizeAgain ==
  /\ phase = "once"
  /\ ~first.threw
  /\ LET res == dataConstructor(heap, first.ret)
     IN /\ heap' = res.heap
        /\ second' = Result(res)
  /\ phase' = "twice"
  /\ UNCHANGED <<options, first>>
  /\ UNCHANGED runtimeVars

NextNorm == Construct \/ Normalize \/ NormalizeAgain

SpecNorm == InitNorm /\ [][NextNorm]_vars

\* --------------------------------------- registration and event delivery
Init ==
  /\ phase = "runtime"
  /\ options = CHOOSE o \in WireOptions : TRUE
  /\ first = NoResult
  /\ second = NoResult
  /\ heap = <<>>
  /\ GCLOUD_PROJECT \in Projects
  /\ builders = {}
  /\ registry = {}
  /\ inv = <<>>
  /\ ncalls = 0

\* functions.auth.user()
User ==
  /\ builders' = builders \cup {user(GCLOUD_PROJECT)}
  /\ builders' # builders
  /\ UNCHANGED <<heap, GCLOUD_PROJECT, registry, inv, ncalls>>
  /\ UNCHANGED normVars

Register(b, entry, h, fn) ==
  /\ Cardinality(registry) < MaxRegs
  /\ registry' = registry \cup {[builder |-> b, entry |-> entry, arg |-> h, fn |-> fn]}
  /\ registry' # registry
  /\ UNCHANGED <<heap, GCLOUD_PROJECT, builders, inv, ncalls>>
  /\ UNCHANGED normVars

\* builder.onCreate(handler)
OnCreate == \E b \in builders, h \in Callbacks : Register(b, "onCreate", h, onCreate(b, h))

\* builder.onDelete(handler)
OnDelete == \E b \in builders, h \in Callbacks : Register(b, "onDelete", h, onDelete(b, h))

\* the runtime routes an envelope to a descriptor whose resource and type match
Deliver ==
  \E reg \in registry, opts \in WireOptions :
    /\ Len(inv) < MaxInv
    /\ opts.type = reg.fn.eventType
    /\ heap' = Append(heap, FirebaseEvent(opts))
    /\ inv' = Append(inv, [reg |-> reg, resource |-> reg.fn.resource,
                           wire |-> FirebaseEvent(opts), pc |-> "matched",
                           ret |-> NoRef, seen |-> NoEvent, calls |-> 0,
                           outcome |-> NoOutcome])
    /\ UNCHANGED <<GCLOUD_PROJECT, builders, registry, ncalls>>
    /\ UNCHANGED normVars

\* descriptor.normalizer applied to the envelope; a throw ends the invocation
ApplyNormalizer(i) ==
  /\ inv[i].pc = "matched"
  /\ inv[i].reg.fn.normalize = "UserBuilder.dataConstructor"
  /\ LET res == dataConstructor(heap, i)
     IN /\ heap' = res.heap
        /\ inv' = [inv EXCEPT ![i].ret = res.ret,
                              ![i].pc = IF res.threw THEN "done" ELSE "normalized",
                              ![i].outcome = IF res.threw THEN Rejected("TypeError") ELSE @]
  /\ UNCHANGED <<GCLOUD_PROJECT, builders, registry, ncalls>>
  /\ UNCHANGED normVars

\* descriptor.callback(event), the event carrying the record the normalizer returned
InvokeCallback(i) ==
  /\ inv[i].pc = "normalized"
  /\ LET cb == inv[i].reg.fn.handler
         now == Returned(cb)
     IN inv' = [inv EXCEPT ![i].seen = Event(heap[inv[i].ret].data, heap[i], inv[i].resource),
                           ![i].calls = @ + 1,
                           ![i].outcome = now,
                           ![i].pc = IF now = NoOutcome THEN "pending" ELSE "done"]
  /\ ncalls' = ncalls + 1
  /\ UNCHANGED <<heap, GCLOUD_PROJECT, builders, registry>>
  /\ UNCHANGED normVars

\* the pending computation the callback returned settles
Settle(i) ==
  /\ inv[i].pc = "pending"
  /\ inv' = [inv EXCEPT ![i].outcome = Settled(inv[i].reg.fn.handler), ![i].pc = "done"]
  /\ UNCHANGED <<heap, GCLOUD_PROJECT, builders, registry, ncalls>>
  /\ UNCHANGED normVars

Next ==
  \/ User
  \/ OnCreate
  \/ OnDelete
  \/ Deliver
  \/ \E i \in 1..Len(inv) : ApplyNormalizer(i)
  \/ \E i \in 1..Len(inv) : InvokeCallback(i)
  \/ \E i \in 1..Len(inv) : Settle(i)

Spec == Init /\ [][Next]_vars
\* ================================================= properties: normalizer
Returned1 == phase \in {"once", "twice"} /\ ~first.threw

TemporalFields == {"lastSignedInAt", "createdAt"}

\* C1: normalization is idempotent: applying dataConstructor a second time to
\* the result of the first application yields a record equal to the first result.
C1_Idempotent ==
  phase = "twice" => (~second.threw /\ second.rec = first.rec)

C1_Witness ==
  /\ phase = "twice"
  /\ options.data.uid = Str(<<"/", "/", "b">>)
  /\ options.data.metadata.t = "object"
  /\ options.data.metadata.createdAt = TStr("1970-01-02T00:00:00Z")
  /\ options.data.metadata.lastSignedInAt = TDate(1000)
  /\ first.rec # options.data
  /\ second.rec = first.rec

\* C2: for a payload whose uid is a string, the normalized uid is the substring
\* after the last '/' when the uid contains one, the unchanged uid when it
\* contains none, and so never contains a '/'.
C2_UidCanonical ==
  (Returned1 /\ options.data.uid.t = "string") =>
    LET c == options.data.uid.c
        r == first.rec.uid
    IN /\ r.t = "string"
       /\ ~Contains(r.c, "/")
       /\ IF Contains(c, "/")
          THEN \E k \in 1..Len(c) :
                 /\ c[k] = "/"
                 /\ \A j \in (k + 1)..Len(c) : c[j] # "/"
                 /\ r.c = SubSeq(c, k + 1, Len(c))
          ELSE r.c = c

C2_Witness ==
  /\ phase = "once"
  /\ options.data.uid = Str(<<"/", "a", "/">>)
  /\ first.rec.uid = Str(<<>>)

\* C3: after the normalizer has run on a payload that has a metadata object,
\* neither temporal field is a raw string: each is the parsed value when it was
\* a string, and unchanged when it was a temporal value or absent.
C3_TemporalCoercion ==
  (Returned1 /\ options.data.metadata.t = "object") =>
    \A f \in TemporalFields :
      LET o == options.data.metadata[f]
          r == first.rec.metadata[f]
      IN /\ r.t # "string"
         /\ o.t = "string" => r = NewDate(o.s)
         /\ o.t # "string" => r = o

\* C4: the normalizer never raises an error, for every envelope of the wire
\* shape, an envelope without a data payload included.
C4_NeverThrows ==
  phase \in {"once", "twice"} => ~first.threw

C10_Frame ==
  phase \in {"once", "twice"} =>
    /\ heap[1].service = options.service
    /\ heap[1].type = options.type
    /\ heap[1].instance = options.instance
    /\ heap[1].uid = options.uid
    /\ heap[1].deviceId = options.deviceId
    /\ ~first.threw =>
         LET d == options.data
             r == first.rec
         IN /\ r.t = d.t
            /\ r.email = d.email
            /\ r.metadata.t = d.metadata.t
            /\ d.metadata.t = "undefined" => r.metadata = d.metadata
            /\ \A f \in TemporalFields :
                 d.metadata[f].t = "undefined" => r.metadata[f] = d.metadata[f]
            /\ d.uid.t = "undefined" => r.uid = d.uid

C10_Witness ==
  /\ phase = "once"
  /\ ~first.threw
  /\ options.uid = Str(<<"a", "/", "b">>)
  /\ heap[1].uid = Str(<<"a", "/", "b">>)
  /\ options.data.metadata.t = "undefined"
  /\ options.data.uid.t = "undefined"
  /\ options.data.email = "user@example.com"
  /\ first.rec = options.data
\* ==================================================== properties: runtime
Invocations == 1..Len(inv)

\* the descriptor a registration's entry point builds from what it was given
Built(reg) ==
  IF reg.entry = "onCreate" THEN onCreate(reg.builder, reg.arg)
  ELSE onDelete(reg.builder, reg.arg)

\* what invocation i yields when its envelope is the only one delivered: the
\* Event for the callback, or no call when the normalizer throws
Alone(i) ==
  LET res == dataConstructor(<<inv[i].wire>>, 1)
  IN [threw |-> res.threw,
      event |-> Event(Result(res).rec, res.heap[1], inv[i].resource)]

\* C6: the descriptors onCreate and onDelete produce on one builder carry the
\* builder's resource, the provider id 'firebase.auth' and the same normalizer,
\* the event types 'user.create' and 'user.delete' respectively, and each the
\* callback passed to its own entry point.
C6_BuilderIsolation ==
  \A r1, r2 \in registry :
    (r1.builder = r2.builder /\ r1.entry = "onCreate" /\ r2.entry = "onDelete") =>
      /\ r1.fn.resource = r1.builder.resource
      /\ r2.fn.resource = r1.builder.resource
      /\ r1.fn.providerId = "firebase.auth"
      /\ r2.fn.providerId = "firebase.auth"
      /\ r1.fn.normalize = r2.fn.normalize
      /\ r1.fn.eventType = "user.create"
      /\ r2.fn.eventType = "user.delete"
      /\ r1.fn.handler = r1.arg
      /\ r2.fn.handler = r2.arg

C6_Witness ==
  \E r1, r2 \in registry :
    /\ r1.builder = r2.builder
    /\ r1.entry = "onCreate"
    /\ r2.entry = "onDelete"
    /\ r1.arg = "throws"
    /\ r2.arg = "rejects"
    /\ r1.fn.resource = "projects/p1"

\* C7: a callback is never invoked by a registration; it is invoked exactly
\* once per delivered envelope whose resource and type match its descriptor,
\* only after the normalizer has been applied, with the normalized record.
C7_DeferredExactlyOnce ==
  /\ ncalls = Cardinality({i \in Invocations : inv[i].calls = 1})
  /\ \A i \in Invocations :
       /\ inv[i].calls \in {0, 1}
       /\ inv[i].pc = "done" => inv[i].calls = 1
       /\ inv[i].calls = 1 =>
            /\ inv[i].pc \in {"pending", "done"}
            /\ inv[i].ret # NoRef
            /\ inv[i].seen.data = heap[inv[i].ret].data
            /\ ~Contains(inv[i].seen.data.uid.c, "/")

\* C8: when the callback throws or its pending result rejects, the invocation
\* completes only once that has settled and reports exactly that failure; the
\* callback is not invoked again.
C8_FailurePropagation ==
  \A i \in Invocations :
    (inv[i].calls >= 1 /\ inv[i].reg.arg \in {"throws", "rejects"}) =>
      /\ inv[i].calls = 1
      /\ inv[i].pc \in {"pending", "done"}
      /\ inv[i].pc = "pending" => inv[i].outcome = NoOutcome
      /\ inv[i].pc = "done" => inv[i].outcome = Rejected(inv[i].reg.arg)

C8_Witness ==
  \E i, j \in Invocations :
    /\ inv[i].pc = "done"
    /\ inv[i].reg.arg = "rejects"
    /\ inv[i].outcome = Rejected("rejects")
    /\ inv[j].pc = "done"
    /\ inv[j].reg.arg = "throws"
    /\ inv[j].outcome = Rejected("throws")

\* C9: a descriptor is after any number of invocations what its entry point
\* built, and in every interleaving of deliveries each callback receives the
\* event it would receive if its envelope were delivered alone.
C9_NoCrossInvocationState ==
  /\ \A reg \in registry : reg.fn = Built(reg)
  /\ \A i \in Invocations :
       /\ inv[i].reg \in registry
       /\ inv[i].calls = 1 => (~Alone(i).threw /\ inv[i].seen = Alone(i).event)
       /\ (inv[i].pc = "done" /\ inv[i].calls = 0) => Alone(i).threw

C9_Witness ==
  \E i, j \in Invocations :
    /\ i < j
    /\ inv[i].calls = 1
    /\ inv[j].calls = 1
    /\ inv[i].pc = "pending"
    /\ inv[j].pc = "done"
    /\ inv[i].wire.data # inv[j].wire.data
    /\ inv[i].seen.data # inv[i].wire.data
    /\ inv[i].seen.data # inv[j].seen.data
====
